---- MODULE Spec2Model ----
(***************************************************************************)
(* Workflow orchestration of the code-generation pipeline: the graph built *)
(* by build_graph (src/main.py), its routers, the RetryAgent wrapper       *)
(* (src/agents/RetryAgent.py) and the agents wired into the graph.         *)
(*                                                                         *)
(* The workflow state is a Python dict: it is modelled as a function whose *)
(* DOMAIN is the set of keys present.  dict.get(k) of an absent key is     *)
(* None.  Values are strings (messages are abstracted to their kind), the  *)
(* coverage numbers are integers, retry_status is a record holding the     *)
(* number formatted into the message.                                      *)
(***************************************************************************)
EXTENDS Integers, Sequences, FiniteSets, TLC

VARIABLES
    state,   \* the workflow state dict handed from step to step
    node,    \* the engine's position: a node name or a sentinel
    trace,   \* the nodes invoked so far, in order
    ra,      \* the frame of the RetryAgent._run call in progress
    routed   \* results of the router calls of the router harness

vars == <<state, node, trace, ra, routed>>

\* ------------------------------------------------------------------ bounds
MaxRetries == 3      \* largest max_retries the RetryAgent harness draws
MaxTrace == 9        \* the trace stops growing at this length
MaxNested == 2       \* largest max_retries of a RetryAgent around a RetryAgent

\* ------------------------------------------------------- Python dict model
None == "None"
EmptyDict == [k \in {} |-> None]

Get(s, k) == IF k \in DOMAIN s THEN s[k] ELSE None
GetD(s, k, d) == IF k \in DOMAIN s THEN s[k] ELSE d
Update(s, u) ==
    [k \in (DOMAIN s) \cup (DOMAIN u) |-> IF k \in DOMAIN u THEN u[k] ELSE s[k]]
Truthy(v) == v # None /\ v # ""

\* ------------------------------------------------------------------ routers
\* What a router call did: the node name it returned, or the exception it
\* raised with the status key and the status value its message names
\* (f"Unknown {key}: {value}").
Returned(v) == [raised |-> FALSE, exc |-> "", key |-> "", value |-> v]
Raised(e, k, v) == [raised |-> TRUE, exc |-> e, key |-> k, value |-> v]
NotCalled ==
    [raised |-> FALSE, exc |-> "", key |-> "", value |-> "<not called>"]

repo_check_router_Defaulting(s) ==
    IF Get(s, "repo_check_status") = "success"
    THEN Returned("clone_new_repo")
    ELSE Returned("create_remote_repo")

repo_check_router_Swapped(s) ==
    IF Get(s, "repo_check_status") \in {"success", "failed"}
    THEN Returned("clone_new_repo")
    ELSE IF Get(s, "repo_check_status") = "branch_not_found"
    THEN Returned("create_remote_repo")
    ELSE Raised("ValueError", "repo_check_status",
                Get(s, "repo_check_status"))

repo_check_router(s) ==
    IF Get(s, "repo_check_status") = "success"
    THEN Returned("clone_new_repo")
    ELSE IF Get(s, "repo_check_status") \in {"branch_not_found", "failed"}
    THEN Returned("create_remote_repo")
    ELSE Raised("ValueError", "repo_check_status",
                Get(s, "repo_check_status"))

\* The router with "failed" left out of the list of line 104.
coverage_check_router_FailedUnrouted(s) ==
    IF Get(s, "coverage_status") = "below_threshold"
    THEN Returned("generate_tests")
    ELSE IF Get(s, "coverage_status") = "success"
    THEN Returned("generate_readme")
    ELSE Raised("ValueError", "coverage_status",
                Get(s, "coverage_status"))

coverage_check_router(s) ==
    IF Get(s, "coverage_status") \in {"below_threshold", "failed"}
    THEN Returned("generate_tests")
    ELSE IF Get(s, "coverage_status") = "success"
    THEN Returned("generate_readme")
    ELSE Raised("ValueError", "coverage_status",
                Get(s, "coverage_status"))

\* --------------------------------------------------------------- RetryAgent
\* The frame of one RetryAgent._run call.  attempt is the local counter of
\* the code; calls, sleeps, log and last record what the call did: the number
\* of target invocations, the number of time.sleep calls, what each target
\* invocation did, and the state the target returned last; input is the
\* state the call was given (`state = input`).  When the target is itself a
\* RetryAgent, wraps holds the frame that RetryAgent starts from and
\* target_log records what each invocation of the innermost target did.
IdleFrame ==
    [pc |-> "idle", target |-> "none", max_retries |-> 0,
     failure_key |-> "status", success_value |-> "success",
     attempt |-> 0, calls |-> 0, sleeps |-> 0, log |-> <<>>, last |-> <<>>,
     wrote |-> FALSE, input |-> <<>>, wraps |-> <<>>, target_log |-> <<>>]

\* RetryAgent.__init__ followed by the first two lines of _run.
NewFrame(target, n, key, val) ==
    [IdleFrame EXCEPT !.pc = "loop", !.target = target, !.max_retries = n,
                      !.failure_key = key, !.success_value = val]

RetryLoopGuard_OffByOne(f) == f.attempt <= f.max_retries

\* while attempt < self._max_retries
RetryLoopGuard(f) == f.attempt < f.max_retries

\* if state.get(self._failure_key) == self._success_value
RetrySucceeded(f, s) == Get(s, f.failure_key) = f.success_value

RetryOnException_Propagate(f) == [f EXCEPT !.pc = "raised"]

\* except Exception: print; then attempt += 1; time.sleep(retry_delay)
RetryOnException(f) ==
    [f EXCEPT !.attempt = f.attempt + 1, !.sleeps = f.sleeps + 1]

\* return state
RetryOnSuccess(f) == [f EXCEPT !.pc = "returned"]

\* else: print; then attempt += 1; time.sleep(retry_delay)
RetryOnFailure(f) ==
    [f EXCEPT !.attempt = f.attempt + 1, !.sleeps = f.sleeps + 1]

RetryStatusMessage_Attempts(f) ==
    [text |-> "Failed after {} retries", n |-> f.calls - 1]

\* f"Failed after {self._max_retries} retries"
RetryStatusMessage(f) ==
    [text |-> "Failed after {} retries", n |-> f.max_retries]

\* The update applied to the input of the call instead of the current state.
RetryExhaustedUpdate_OnInput(f, s) ==
    Update(f.input[1],
           [k \in {f.failure_key, "retry_status"} |->
              IF k = "retry_status"
              THEN [text |-> "Failed after {} retries", n |-> f.max_retries]
              ELSE "failed"])

\* The update without the overwrite of the failure key.
RetryExhaustedUpdate_KeepStatus(f, s) ==
    Update(s, [k \in {"retry_status"} |-> RetryStatusMessage(f)])

RetryExhaustedUpdate_NoMessage(f, s) ==
    Update(s, [k \in {f.failure_key} |-> "failed"])

\* state.update({failure_key: "failed", "retry_status": ...})
RetryExhaustedUpdate(f, s) ==
    Update(s, [k \in {f.failure_key, "retry_status"} |->
                 IF k = "retry_status" THEN RetryStatusMessage(f) ELSE "failed"])

\* What one target invocation did, as the caller can observe it: o.raised,
\* o.st (the dict as it is after the call) and o.wrote (the target assigned
\* the failure key).  The tag is "success" when the target returned a state
\* whose failure key holds the success value.
OutcomeTag(f, o) ==
    IF o.raised THEN "raised"
    ELSE IF Get(o.st, f.failure_key) = f.success_value THEN "success"
    ELSE "failed"

\* One iteration of the while loop of RetryAgent._run on outcome o.
RetryIteration(f, o) ==
    LET g == [f EXCEPT !.calls = f.calls + 1,
                       !.log = Append(f.log, OutcomeTag(f, o)),
                       !.last = IF o.raised THEN f.last ELSE <<o.st>>,
                       !.wrote = f.wrote \/ o.wrote]
    IN IF o.raised THEN RetryOnException(g)
       ELSE IF RetrySucceeded(g, o.st) THEN RetryOnSuccess(g)
       ELSE RetryOnFailure(g)

\* ------------------------------------------------ a target of any behaviour
\* A target step as RetryAgent sees one: it returns the state with the
\* failure key set to some value, returns it with the failure key untouched,
\* or raises, with or without having written to the dict it was handed.
GenericStatusValues == {"success", "failed", "below_threshold"}

GenericTarget(f, s) ==
    {[raised |-> FALSE, wrote |-> TRUE,
      st |-> Update(s, [k \in {f.failure_key, "payload"} |->
                          IF k = "payload" THEN "out" ELSE v])]
        : v \in GenericStatusValues}
    \cup {[raised |-> FALSE, wrote |-> FALSE,
           st |-> Update(s, [k \in {"payload"} |-> "out"])]}
    \cup {[raised |-> TRUE, wrote |-> FALSE, st |-> s]}
    \cup {[raised |-> TRUE, wrote |-> TRUE,
           st |-> Update(s, [k \in {f.failure_key} |-> f.success_value])]}

\* ------------------------------------------------------ agents of the graph
\* Messages are abstracted to their kind: every agent formats a non-empty
\* text on each path; the kind is the status the text goes with.
Msg(agent, kind) == <<agent, kind>>

HttpsUrls == {"https://github.com/u/repo", "https://github.com/u/new_repo"}
\* repo_url.startswith("https://")
StartsWithHttps(u) == u \in HttpsUrls

\* What `git ls-remote --heads` can do: exit 0 with output, exit 0 with no
\* output, exit non-zero with or without output, or raise (timeout, git not
\* installed).
LsRemoteResults ==
    {[exc |-> FALSE, returncode |-> 0, stdout |-> "refs/heads/main"],
     [exc |-> FALSE, returncode |-> 0, stdout |-> ""],
     [exc |-> FALSE, returncode |-> 128, stdout |-> ""],
     [exc |-> FALSE, returncode |-> 1, stdout |-> "refs/heads/main"],
     [exc |-> TRUE, returncode |-> 0, stdout |-> ""]}

RepoCheckResult(s, status, why) ==
    Update(s, ("repo_check_status" :> status)
              @@ ("repo_check_message" :> Msg("repo_check", why)))

CheckRemoteRepoExistsAgent_ErrorStatus(s) ==
    IF ~(Truthy(Get(s, "username")) /\ Truthy(Get(s, "token"))
         /\ Truthy(Get(s, "repo_url")) /\ Truthy(Get(s, "branch")))
    THEN {RepoCheckResult(s, "failed", "missing parameters")}
    ELSE IF ~StartsWithHttps(Get(s, "repo_url"))
    THEN {RepoCheckResult(s, "failed", "invalid url")}
    ELSE {IF r.exc THEN RepoCheckResult(s, "error", "exception")
          ELSE IF r.returncode = 0 /\ r.stdout # ""
          THEN RepoCheckResult(s, "success", "accessible")
          ELSE IF r.returncode = 0 /\ r.stdout = ""
          THEN RepoCheckResult(s, "branch_not_found", "branch not found")
          ELSE RepoCheckResult(s, "failed", "not accessible") : r \in LsRemoteResults}

\* A variant that reads the output of git ls-remote and not its exit code.
CheckRemoteRepoExistsAgent_call_OutputOnly(s, r) ==
    IF ~(Truthy(Get(s, "username")) /\ Truthy(Get(s, "token"))
         /\ Truthy(Get(s, "repo_url")) /\ Truthy(Get(s, "branch")))
    THEN [state |-> RepoCheckResult(s, "failed", "missing parameters"),
          ls_remote |-> FALSE]
    ELSE IF ~StartsWithHttps(Get(s, "repo_url"))
    THEN [state |-> RepoCheckResult(s, "failed", "invalid url"),
          ls_remote |-> FALSE]
    ELSE IF r.exc
    THEN [state |-> RepoCheckResult(s, "failed", "exception"),
          ls_remote |-> TRUE]
    ELSE IF r.stdout # ""
    THEN [state |-> RepoCheckResult(s, "success", "accessible"),
          ls_remote |-> TRUE]
    ELSE IF r.returncode = 0
    THEN [state |-> RepoCheckResult(s, "branch_not_found", "branch not found"),
          ls_remote |-> TRUE]
    ELSE [state |-> RepoCheckResult(s, "failed", "not accessible"),
          ls_remote |-> TRUE]

\* _run on input state s when git ls-remote does r: the state it returns, and
\* whether it reached the call of subprocess.run.
CheckRemoteRepoExistsAgent_call(s, r) ==
    IF ~(Truthy(Get(s, "username")) /\ Truthy(Get(s, "token"))
         /\ Truthy(Get(s, "repo_url")) /\ Truthy(Get(s, "branch")))
    THEN [state |-> RepoCheckResult(s, "failed", "missing parameters"),
          ls_remote |-> FALSE]
    ELSE IF ~StartsWithHttps(Get(s, "repo_url"))
    THEN [state |-> RepoCheckResult(s, "failed", "invalid url"),
          ls_remote |-> FALSE]
    ELSE IF r.exc
    THEN [state |-> RepoCheckResult(s, "failed", "exception"),
          ls_remote |-> TRUE]
    ELSE IF r.returncode = 0 /\ r.stdout # ""
    THEN [state |-> RepoCheckResult(s, "success", "accessible"),
          ls_remote |-> TRUE]
    ELSE IF r.returncode = 0 /\ r.stdout = ""
    THEN [state |-> RepoCheckResult(s, "branch_not_found", "branch not found"),
          ls_remote |-> TRUE]
    ELSE [state |-> RepoCheckResult(s, "failed", "not accessible"),
          ls_remote |-> TRUE]

\* The state _run returns on input state s when git ls-remote does r.
CheckRemoteRepoExistsAgent_run(s, r) ==
    CheckRemoteRepoExistsAgent_call(s, r).state

CheckRemoteRepoExistsAgent(s) ==
    {CheckRemoteRepoExistsAgent_run(s, r) : r \in LsRemoteResults}

\* What requests.post to the GitHub API can do: 201 with the new repository's
\* html_url, another status code, or raise.
CreateRepoResponses ==
    {[exc |-> FALSE, status_code |-> 201,
      html_url |-> "https://github.com/u/new_repo"],
     [exc |-> FALSE, status_code |-> 422, html_url |-> None],
     [exc |-> TRUE, status_code |-> 0, html_url |-> None]}

RepoCreationResult(s, status) ==
    Update(s, ("repo_creation_status" :> status)
              @@ ("repo_creation_message" :> Msg("repo_creation", status)))

\* _run on input state s when the GitHub API does r, with the repo_url write
\* moved out of the 201 branch.
CreateRemoteRepoTool_run_UrlAlways(s, r) ==
    IF ~Truthy(Get(s, "username")) \/ ~Truthy(Get(s, "token"))
       \/ ~Truthy(Get(s, "new_repo_name"))
    THEN RepoCreationResult(s, "failed")
    ELSE IF r.exc THEN RepoCreationResult(s, "failed")
    ELSE Update(RepoCreationResult(s, IF r.status_code = 201 THEN "success"
                                      ELSE "failed"),
                "repo_url" :> r.html_url)

\* _run on input state s when the GitHub API does r.
CreateRemoteRepoTool_run(s, r) ==
    IF ~Truthy(Get(s, "username")) \/ ~Truthy(Get(s, "token"))
       \/ ~Truthy(Get(s, "new_repo_name"))
    THEN RepoCreationResult(s, "failed")
    ELSE IF r.exc THEN RepoCreationResult(s, "failed")
    ELSE IF r.status_code = 201
    THEN Update(RepoCreationResult(s, "success"), "repo_url" :> r.html_url)
    ELSE RepoCreationResult(s, "failed")

CreateRemoteRepoTool(s) ==
    {CreateRemoteRepoTool_run(s, r) : r \in CreateRepoResponses}

\* The local file system and git as CloneNewRepoAgent meets them: whether
\* repo_path already holds a .git directory, and what Repo.clone_from does.
CloneEnvironments ==
    [git_dir_exists : BOOLEAN, clone : {"ok", "GitCommandError", "Exception"}]

CloneResult(s, status) ==
    Update(s, ("clone_status" :> status)
              @@ ("clone_message" :> Msg("clone", status)))

\* _run without the check for an existing .git directory.
CloneNewRepoAgent_run_NoSkip(s, e) ==
    IF ~Truthy(Get(s, "username")) \/ ~Truthy(Get(s, "token"))
       \/ ~Truthy(Get(s, "repo_url"))
       \/ ~Truthy(GetD(s, "repo_path", "./cloned_repo"))
    THEN [state |-> CloneResult(s, "failed"), clone_from |-> FALSE]
    ELSE IF ~StartsWithHttps(Get(s, "repo_url"))
    THEN [state |-> CloneResult(s, "failed"), clone_from |-> FALSE]
    ELSE IF e.clone = "ok"
    THEN [state |-> CloneResult(s, "success"), clone_from |-> TRUE]
    ELSE [state |-> CloneResult(s, "failed"), clone_from |-> TRUE]

\* _run without the check of the required parameters.
CloneNewRepoAgent_run_NoParamCheck(s, e) ==
    IF e.git_dir_exists
    THEN [state |-> CloneResult(s, "already_exists"), clone_from |-> FALSE]
    ELSE IF ~StartsWithHttps(Get(s, "repo_url"))
    THEN [state |-> CloneResult(s, "failed"), clone_from |-> FALSE]
    ELSE IF e.clone = "ok"
    THEN [state |-> CloneResult(s, "success"), clone_from |-> TRUE]
    ELSE [state |-> CloneResult(s, "failed"), clone_from |-> TRUE]

\* _run on input state s in environment e: the state it returns, and whether
\* it reached the call of Repo.clone_from.
CloneNewRepoAgent_run(s, e) ==
    IF ~Truthy(Get(s, "username")) \/ ~Truthy(Get(s, "token"))
       \/ ~Truthy(Get(s, "repo_url"))
       \/ ~Truthy(GetD(s, "repo_path", "./cloned_repo"))
    THEN [state |-> CloneResult(s, "failed"), clone_from |-> FALSE]
    ELSE IF e.git_dir_exists
    THEN [state |-> CloneResult(s, "already_exists"), clone_from |-> FALSE]
    ELSE IF ~StartsWithHttps(Get(s, "repo_url"))
    THEN [state |-> CloneResult(s, "failed"), clone_from |-> FALSE]
    ELSE IF e.clone = "ok"
    THEN [state |-> CloneResult(s, "success"), clone_from |-> TRUE]
    ELSE [state |-> CloneResult(s, "failed"), clone_from |-> TRUE]

CloneNewRepoAgent(s) ==
    {CloneNewRepoAgent_run(s, e).state : e \in CloneEnvironments}

\* GeneratePythonCodeAgent._update_state
GeneratePythonCode_update_state(s, status, code, path) ==
    LET s1 == Update(s, ("code_generation_status" :> status)
                        @@ ("code_generation_message"
                              :> Msg("code_generation", status)))
        s2 == IF Truthy(code) THEN Update(s1, "generated_code" :> code) ELSE s1
    IN IF Truthy(path) THEN Update(s2, "generated_code_path" :> path) ELSE s2

\* What the scaffolding and the LLM can do in one run of the agent: raise,
\* answer nothing, answer text that is rejected (under two lines, or not
\* compiling), or answer code that compiles.
CodeLlmResults == {"exception", "empty", "rejected_code", "valid_code"}

\* _run on input state s when the scaffolding and the LLM do r.
GeneratePythonCodeAgent_run(s, r) ==
    IF ~Truthy(Get(s, "code_prompt"))
    THEN GeneratePythonCode_update_state(s, "failed", None, None)
    ELSE IF r \in {"exception", "empty"}
    THEN GeneratePythonCode_update_state(s, "failed", None, None)
    ELSE IF r = "rejected_code"
    THEN GeneratePythonCode_update_state(s, "failed", r, None)
    ELSE GeneratePythonCode_update_state(s, "success", r,
                                         "src/project/module.py")

GeneratePythonCodeAgent(s) ==
    {GeneratePythonCodeAgent_run(s, r) : r \in CodeLlmResults}

\* GenerateTestsAgent._update_state: the status goes to the key "status".
GenerateTests_update_state(s, status, code, path) ==
    LET s1 == Update(s, ("status" :> status)
                        @@ ("test_generation_message"
                              :> Msg("test_generation", status)))
        s2 == IF Truthy(code) THEN Update(s1, "tests_content" :> code) ELSE s1
    IN IF Truthy(path) THEN Update(s2, "test_file_path" :> path) ELSE s2

\* What the public-API scan and the LLM can do in one run of the agent.
TestsLlmResults == {"no_public_api", "exception", "rejected_tests", "valid_tests"}

\* _run on input state s when the public-API scan and the LLM do r.
GenerateTestsAgent_run(s, r) ==
    IF ~Truthy(GetD(s, "generated_code", ""))
    THEN GenerateTests_update_state(s, "failed", None, None)
    ELSE IF r = "valid_tests"
    THEN GenerateTests_update_state(s, "success", r, "tests/test_module.py")
    ELSE GenerateTests_update_state(s, "failed", None, None)

GenerateTestsAgent(s) ==
    {GenerateTestsAgent_run(s, r) : r \in TestsLlmResults}

DefaultCoverageThreshold == 90

\* What pip and pytest can do: raise, print no percentage, or print one.
CoverageRuns ==
    {[exc |-> TRUE, parsed |-> FALSE, percent |-> 0],
     [exc |-> FALSE, parsed |-> FALSE, percent |-> 0],
     [exc |-> FALSE, parsed |-> TRUE, percent |-> 85],
     [exc |-> FALSE, parsed |-> TRUE, percent |-> 95]}

CoverageResult(s, status) ==
    Update(s, ("coverage_status" :> status)
              @@ ("coverage_message" :> Msg("coverage", status)))

\* _run on input state s when pip and pytest do r.
GenerateCoverageAgent_run(s, r) ==
    LET threshold == GetD(s, "coverage_threshold", DefaultCoverageThreshold)
    IN IF ~Truthy(Get(s, "repo_path"))
       THEN CoverageResult(s, "failed")
       ELSE IF r.exc \/ ~r.parsed THEN CoverageResult(s, "failed")
       ELSE IF r.percent >= threshold
       THEN CoverageResult(Update(s, "coverage_percent" :> r.percent),
                           "success")
       ELSE CoverageResult(Update(s, "coverage_percent" :> r.percent),
                           "below_threshold")

GenerateCoverageAgent(s) ==
    {GenerateCoverageAgent_run(s, r) : r \in CoverageRuns}

ReadmeLlmResults == {"exception", "empty", "readme_text"}

\* _run on input state s when the LLM does r.
GenerateReadmeAgent_run(s, r) ==
    IF r \in {"exception", "empty"}
    THEN Update(s, ("readme_status" :> "failed")
                   @@ ("readme_message" :> Msg("readme", "failed")))
    ELSE Update(s, ("readme_status" :> "success")
                   @@ ("readme_message" :> Msg("readme", "success"))
                   @@ ("readme_path" :> "README.md")
                   @@ ("readme_content" :> r))

GenerateReadmeAgent(s) ==
    {GenerateReadmeAgent_run(s, r) : r \in ReadmeLlmResults}

\* What `git commit` can do on a repository with commits: create the commit;
\* find nothing to commit, which git reports on stdout with exit code 1;
\* fail with a diagnostic on stderr, which a hook may word as it likes.
CommitResults ==
    {[returncode |-> 0, stdout |-> "[feature 1a2b3c4] Auto commit",
      stderr |-> ""],
     [returncode |-> 1, stdout |-> "nothing to commit, working tree clean",
      stderr |-> ""],
     [returncode |-> 1, stdout |-> "", stderr |-> "pre-commit hook failed"],
     [returncode |-> 1, stdout |-> "",
      stderr |-> "pre-commit: Nothing to commit"]}

\* What the git commands of GitCommitPushAgent can do: setup is the remote
\* and identity configuration, empty is what _is_repo_empty finds, init the
\* initial commit of an empty repository, add and commit the add and the
\* commit of a repository with commits, push the final push.
GitRuns ==
    [setup : {"ok", "fail"}, empty : BOOLEAN, init : {"ok", "fail"},
     add : {"ok", "fail"}, commit : CommitResults, push : {"ok", "fail"}]

\* "nothing to commit" in text.lower()
ContainsNothingToCommit(text) ==
    text \in {"nothing to commit, working tree clean",
              "pre-commit: Nothing to commit"}

\* _run_git_command on a command that does res: stdout when it exits 0,
\* stderr when it fails and allow_fail is set, and the exception otherwise.
GitCommitPushAgent_run_git_command(res, allow_fail) ==
    IF res.returncode = 0 THEN [raised |-> FALSE, output |-> res.stdout]
    ELSE IF allow_fail THEN [raised |-> FALSE, output |-> res.stderr]
    ELSE [raised |-> TRUE, output |-> ""]

GitPushResult(s, status) ==
    Update(s, ("git_push_status" :> status)
              @@ ("git_push_message" :> Msg("git_push", status)))

\* _run on input state s when the git commands do r: the state it returns
\* and the git commands it ran, in order.
GitCommitPushAgent_call(s, r) ==
    IF ~(Truthy(Get(s, "repo_path")) /\ Truthy(Get(s, "username"))
         /\ Truthy(Get(s, "token")) /\ Truthy(Get(s, "repo_url")))
    THEN [state |-> GitPushResult(s, "failed"), commands |-> <<>>]
    ELSE IF ~StartsWithHttps(Get(s, "repo_url"))
    THEN [state |-> GitPushResult(s, "failed"), commands |-> <<>>]
    ELSE IF r.setup = "fail"
    THEN [state |-> GitPushResult(s, "failed"), commands |-> <<"config">>]
    ELSE IF r.empty
    THEN IF r.init = "fail"
         THEN [state |-> GitPushResult(s, "failed"),
               commands |-> <<"config", "checkout", "add", "commit">>]
         ELSE [state |-> GitPushResult(s, IF r.push = "ok" THEN "success"
                                          ELSE "failed"),
               commands |-> <<"config", "checkout", "add", "commit", "push">>]
    ELSE IF r.add = "fail"
    THEN [state |-> GitPushResult(s, "failed"),
          commands |-> <<"config", "add">>]
    ELSE IF ContainsNothingToCommit(
              GitCommitPushAgent_run_git_command(r.commit, TRUE).output)
    THEN [state |-> GitPushResult(s, "clean"),
          commands |-> <<"config", "add", "commit">>]
    ELSE [state |-> GitPushResult(s, IF r.push = "ok" THEN "success"
                                     ELSE "failed"),
          commands |-> <<"config", "add", "commit", "push">>]

\* The state _run returns on input state s when the git commands do r.
GitCommitPushAgent_run(s, r) == GitCommitPushAgent_call(s, r).state

GitCommitPushAgent(s) ==
    {GitCommitPushAgent_run(s, r) : r \in GitRuns}

\* The target's invoke as RetryAgent calls it.  The agents of the graph catch
\* every Exception themselves, so they always return.
AsOutcomes(states, wrote) ==
    {[raised |-> FALSE, wrote |-> wrote, st |-> t] : t \in states}

TargetOutcomes(f, s) ==
    IF f.target = "generic" THEN GenericTarget(f, s)
    ELSE IF f.target = "generate_python_code"
    THEN AsOutcomes(GeneratePythonCodeAgent(s), f.failure_key = "code_generation_status")
    ELSE IF f.target = "generate_tests"
    THEN AsOutcomes(GenerateTestsAgent(s), f.failure_key = "status")
    ELSE {}

\* ------------------------------------------------------- RetryAgent actions
RetryAttempt ==
    /\ ra.pc = "loop"
    /\ RetryLoopGuard(ra)
    /\ \E o \in TargetOutcomes(ra, state) :
          /\ state' = o.st
          /\ ra' = RetryIteration(ra, o)
    /\ UNCHANGED <<node, trace, routed>>

RetryExhausted ==
    /\ ra.pc = "loop"
    /\ ~RetryLoopGuard(ra)
    /\ state' = RetryExhaustedUpdate(ra, state)
    /\ ra' = [ra EXCEPT !.pc = "returned"]
    /\ UNCHANGED <<node, trace, routed>>

\* ------------------------------------ a RetryAgent as the target of another
\* The while loop of _run from frame f and state s, run to its return: the
\* frames and states it can end in.
RECURSIVE RetryLoop(_, _)
RetryLoop(f, s) ==
    IF f.pc # "loop" THEN {[frame |-> f, st |-> s]}
    ELSE IF RetryLoopGuard(f)
    THEN UNION {RetryLoop(RetryIteration(f, o), o.st) :
                  o \in TargetOutcomes(f, s)}
    ELSE {[frame |-> [f EXCEPT !.pc = "returned"],
           st |-> RetryExhaustedUpdate(f, s)]}

\* RetryAgent._run of the agent of frame f on input state s.
RetryAgent_run(f, s) == RetryLoop([f EXCEPT !.input = <<s>>], s)

\* The invoke of the RetryAgent that frame f wraps, as f's loop sees it: the
\* inner agent catches every Exception, so it always returns; log is what
\* its target invocations did.
NestedOutcomes(f, s) ==
    {[raised |-> FALSE,
      wrote |-> r.frame.wrote \/ ~RetryLoopGuard(r.frame),
      st |-> r.st,
      log |-> r.frame.log] : r \in RetryAgent_run(f.wraps[1], s)}

\* One iteration of the outer loop: the inner RetryAgent runs to its return.
NestedAttempt ==
    /\ ra.pc = "loop"
    /\ ra.wraps # <<>>
    /\ RetryLoopGuard(ra)
    /\ \E o \in NestedOutcomes(ra, state) :
          /\ state' = o.st
          /\ ra' = [RetryIteration(ra, o)
                     EXCEPT !.target_log = ra.target_log \o o.log]
    /\ UNCHANGED <<node, trace, routed>>

\* ------------------------------------------------ the graph of build_graph
Nodes ==
    {"check_remote_repo", "create_remote_repo", "clone_new_repo",
     "generate_code", "generate_tests", "check_coverage", "generate_readme",
     "git_commit_push"}

RetryNodes == {"generate_code", "generate_tests"}

EntryPoint == "check_remote_repo"
FinishPoint == "git_commit_push"

CodeMaxRetries == 3
TestsMaxRetries == 3

\* The RetryAgent registered under node n.
RetryAgentOf(n) ==
    IF n = "generate_code"
    THEN NewFrame("generate_python_code", CodeMaxRetries,
                  "code_generation_status", "success")
    ELSE NewFrame("generate_tests", TestsMaxRetries,
                  "test_generation_status", "success")

\* The conditional edges with line 116 enabled next to the static edge of
\* line 117.
ConditionalEdges_CoverageAlso == {"check_remote_repo", "check_coverage"}

\* graph.add_conditional_edges
ConditionalEdges == {"check_remote_repo"}

RouterOf(n, s) == repo_check_router(s)

\* graph.add_edge
StaticEdges ==
    ("create_remote_repo" :> "clone_new_repo")
    @@ ("clone_new_repo" :> "generate_code")
    @@ ("generate_code" :> "generate_tests")
    @@ ("generate_tests" :> "check_coverage")
    @@ ("check_coverage" :> "generate_readme")
    @@ ("generate_readme" :> "git_commit_push")

\* The graph with the conditional coverage edge of line 116 enabled.
Successor_CoverageLoop(n, s) ==
    IF n = FinishPoint THEN "FINISHED"
    ELSE IF n = "check_coverage"
    THEN (IF coverage_check_router(s).raised THEN "ABORTED"
          ELSE coverage_check_router(s).value)
    ELSE IF n \in ConditionalEdges
    THEN (IF RouterOf(n, s).raised \/ RouterOf(n, s).value \notin Nodes
          THEN "ABORTED" ELSE RouterOf(n, s).value)
    ELSE StaticEdges[n]

\* The engine with a router's exception caught and the run sent on to the
\* branch of the failed check.
Successor_IgnoreFault(n, s) ==
    IF n = FinishPoint THEN "FINISHED"
    ELSE IF n \in ConditionalEdges
    THEN (IF RouterOf(n, s).raised \/ RouterOf(n, s).value \notin Nodes
          THEN "create_remote_repo" ELSE RouterOf(n, s).value)
    ELSE IF n \in DOMAIN StaticEdges THEN StaticEdges[n]
    ELSE "ABORTED"

\* An engine that ends the run when clone_new_repo reported "failed".
Successor_StopOnFailure(n, s) ==
    IF n = FinishPoint THEN "FINISHED"
    ELSE IF n \in ConditionalEdges
    THEN (IF RouterOf(n, s).raised \/ RouterOf(n, s).value \notin Nodes
          THEN "ABORTED" ELSE RouterOf(n, s).value)
    ELSE IF n = "clone_new_repo" /\ Get(s, "clone_status") = "failed"
    THEN "FINISHED"
    ELSE IF n \in DOMAIN StaticEdges THEN StaticEdges[n]
    ELSE "ABORTED"

\* The engine's transition rule: where the run goes after node n returned s.
\* A router that raises, or names no registered node, aborts the run.
Successor(n, s) ==
    IF n = FinishPoint THEN "FINISHED"
    ELSE IF n \in ConditionalEdges
    THEN (IF RouterOf(n, s).raised \/ RouterOf(n, s).value \notin Nodes
          THEN "ABORTED" ELSE RouterOf(n, s).value)
    ELSE IF n \in DOMAIN StaticEdges THEN StaticEdges[n]
    ELSE "ABORTED"

Log(tr, n) == IF Len(tr) < MaxTrace THEN Append(tr, n) ELSE tr

\* The engine invokes the plain agent registered under n and follows its edge.
Invoke(n, results) ==
    /\ node = n
    /\ ra.pc = "idle"
    /\ \E t \in results :
          /\ state' = t
          /\ node' = Successor(n, t)
    /\ trace' = Log(trace, n)
    /\ UNCHANGED <<ra, routed>>

\* The engine invokes the RetryAgent registered under n.
InvokeRetry(n) ==
    /\ node = n
    /\ ra.pc = "idle"
    /\ ra' = [RetryAgentOf(n) EXCEPT !.input = <<state>>]
    /\ trace' = Log(trace, n)
    /\ UNCHANGED <<state, node, routed>>

Start ==
    /\ node = "NOT_STARTED"
    /\ node' = EntryPoint
    /\ UNCHANGED <<state, trace, ra, routed>>

check_remote_repo == Invoke("check_remote_repo", CheckRemoteRepoExistsAgent(state))
create_remote_repo == Invoke("create_remote_repo", CreateRemoteRepoTool(state))
clone_new_repo == Invoke("clone_new_repo", CloneNewRepoAgent(state))
generate_code == InvokeRetry("generate_code")
generate_tests == InvokeRetry("generate_tests")
check_coverage == Invoke("check_coverage", GenerateCoverageAgent(state))
generate_readme == Invoke("generate_readme", GenerateReadmeAgent(state))
git_commit_push == Invoke("git_commit_push", GitCommitPushAgent(state))

\* An engine that follows the node's edge while the RetryAgent call is open.
RetryReturn_Early ==
    /\ node \in RetryNodes
    /\ ra.pc \in {"loop", "returned"}
    /\ node' = Successor(node, state)
    /\ ra' = IdleFrame
    /\ UNCHANGED <<state, trace, routed>>

\* The RetryAgent returns to the engine, which follows the node's edge.
RetryReturn ==
    /\ node \in RetryNodes
    /\ ra.pc = "returned"
    /\ node' = Successor(node, state)
    /\ ra' = IdleFrame
    /\ UNCHANGED <<state, trace, routed>>

\* initial_state of main: the values of config.yaml and the prompt, which
\* main refuses when empty.  A run starts with all values set, or with one
\* of them empty or (for repo_url) not an https URL.
FullConfig ==
    ("username" :> "user") @@ ("token" :> "tok")
    @@ ("user_email" :> "user@example.com")
    @@ ("repo_url" :> "https://github.com/u/repo")
    @@ ("branch" :> "main") @@ ("new_branch" :> "feature")
    @@ ("new_repo_name" :> "new_repo") @@ ("repo_path" :> "./repo")
    @@ ("project_name" :> "project") @@ ("module_name" :> "module")
    @@ ("code_prompt" :> "prompt") @@ ("branch_prefix" :> "auto")
    @@ ("tdd_coverage" :> 80) @@ ("diagram_format" :> "png")
    @@ ("code_style" :> "pep8")

InitialStates ==
    {FullConfig}
    \cup {Update(FullConfig, k :> "") :
            k \in {"username", "token", "repo_url", "branch", "new_repo_name",
                   "repo_path"}}
    \cup {Update(FullConfig, "repo_url" :> "git@github.com:u/repo.git")}

Init ==
    /\ state \in InitialStates
    /\ node = "NOT_STARTED"
    /\ trace = <<>>
    /\ ra = IdleFrame
    /\ routed = [repo |-> NotCalled, cov |-> NotCalled]

Next ==
    \/ Start
    \/ check_remote_repo
    \/ create_remote_repo
    \/ clone_new_repo
    \/ generate_code
    \/ generate_tests
    \/ check_coverage
    \/ generate_readme
    \/ git_commit_push
    \/ RetryAttempt
    \/ RetryExhausted
    \/ RetryReturn

Spec == Init /\ [][Next]_vars

\* The run is one sequential Python thread: a step that can be taken is taken.
FairSpec == Spec /\ WF_vars(Next)

\* ---------------------------------------------------- RetryAgent on its own
InitialStatusValues == {None, "pending", "success", "failed"}

\* What an earlier RetryAgent of the run may have left in the state: the
\* wrappers of build_graph all write the key retry_status.
EarlierRetryStatus ==
    [k \in {"retry_status"} |->
        [text |-> "Failed after {} retries", n |-> CodeMaxRetries]]

\* The max_retries the harness constructs RetryAgents with: a negative one,
\* zero, and the positive ones up to the bound.
RetryCounts == {-1} \cup (0..MaxRetries)

RetryInit ==
    /\ \E n \in RetryCounts, v \in InitialStatusValues,
          earlier \in {EmptyDict, EarlierRetryStatus} :
          /\ state = Update(IF v = None
                            THEN [k \in {"payload"} |-> "in"]
                            ELSE [k \in {"status", "payload"} |->
                                    IF k = "status" THEN v ELSE "in"],
                            earlier)
          /\ ra = [NewFrame("generic", n, "status", "success")
                     EXCEPT !.input = <<state>>]
    /\ node = "NOT_STARTED"
    /\ trace = <<>>
    /\ routed = [repo |-> NotCalled, cov |-> NotCalled]

RetryNext == RetryAttempt \/ RetryExhausted

RetrySpec == RetryInit /\ [][RetryNext]_vars

\* ------------------------------------- RetryAgent around another RetryAgent
\* RetryAgent(RetryAgent(target, max_retries=m, ...), max_retries=n, ...)
\* with the same failure_key and success_value.
NestedInit ==
    /\ \E n \in 0..MaxNested, m \in 0..MaxNested, v \in InitialStatusValues :
          /\ state = (IF v = None
                      THEN [k \in {"payload"} |-> "in"]
                      ELSE [k \in {"status", "payload"} |->
                              IF k = "status" THEN v ELSE "in"])
          /\ ra = [NewFrame("retry_agent", n, "status", "success")
                     EXCEPT !.input = <<state>>,
                            !.wraps = <<NewFrame("generic", m, "status",
                                                 "success")>>]
    /\ node = "NOT_STARTED"
    /\ trace = <<>>
    /\ routed = [repo |-> NotCalled, cov |-> NotCalled]

NestedNext == NestedAttempt \/ RetryExhausted

NestedSpec == NestedInit /\ [][NestedNext]_vars

\* The status values drawn for the routers.
RouterStatusValues ==
    {None, "pending", "success", "failed", "branch_not_found",
     "below_threshold", "bogus", ""}

\* ------------------------------------- the graph behind any entry step
\* What a step registered as the entry node can leave in repo_check_status:
\* any value, or no value.
AnyEntryStep(s) ==
    {IF v = None THEN s ELSE Update(s, "repo_check_status" :> v)
       : v \in RouterStatusValues}

\* The engine runs the entry step and calls the router on what it returned;
\* routed.repo keeps what the router did, the exception included that
\* stream() passes on to main.
check_remote_repo_any ==
    /\ node = "check_remote_repo"
    /\ ra.pc = "idle"
    /\ \E t \in AnyEntryStep(state) :
          /\ state' = t
          /\ node' = Successor("check_remote_repo", t)
          /\ routed' = [routed EXCEPT !.repo = RouterOf("check_remote_repo", t)]
    /\ trace' = Log(trace, "check_remote_repo")
    /\ UNCHANGED ra

AbortNext ==
    \/ Start
    \/ check_remote_repo_any
    \/ create_remote_repo
    \/ clone_new_repo
    \/ generate_code
    \/ generate_tests
    \/ check_coverage
    \/ generate_readme
    \/ git_commit_push
    \/ RetryAttempt
    \/ RetryExhausted
    \/ RetryReturn

AbortSpec == Init /\ [][AbortNext]_vars

\* ----------------------------------------------------- routers on their own
RouterInit ==
    /\ \E a \in RouterStatusValues, b \in RouterStatusValues :
          state = Update(IF a = None THEN EmptyDict
                         ELSE [k \in {"repo_check_status"} |-> a],
                         IF b = None THEN EmptyDict
                         ELSE [k \in {"coverage_status"} |-> b])
    /\ node = "NOT_STARTED"
    /\ trace = <<>>
    /\ ra = IdleFrame
    /\ routed = [repo |-> NotCalled, cov |-> NotCalled]

ApplyRepoCheckRouter ==
    /\ routed.repo = NotCalled
    /\ routed' = [routed EXCEPT !.repo = repo_check_router(state)]
    /\ UNCHANGED <<state, node, trace, ra>>

ApplyCoverageCheckRouter ==
    /\ routed.cov = NotCalled
    /\ routed' = [routed EXCEPT !.cov = coverage_check_router(state)]
    /\ UNCHANGED <<state, node, trace, ra>>

RouterNext == ApplyRepoCheckRouter \/ ApplyCoverageCheckRouter

RouterSpec == RouterInit /\ [][RouterNext]_vars

\* ==================================================================== claims

\* C1: for max_retries = N >= 1 the target is invoked at most N times, and an
\* attempt on which the target reports success (the returned state holds the
\* success value under the failure key) is the last one: the call has
\* returned, with exactly that many invocations and the success value.
C1_RetryBound ==
    ra.max_retries >= 1 =>
        /\ ra.calls <= ra.max_retries
        /\ \A k \in 1..Len(ra.log) :
              ra.log[k] = "success" =>
                  /\ k = Len(ra.log)
                  /\ ra.calls = k
                  /\ ra.pc = "returned"
                  /\ Get(state, ra.failure_key) = ra.success_value

C1_Witness ==
    /\ ra.max_retries = 3
    /\ ra.log = <<"failed", "failed", "success">>
    /\ ra.pc = "returned"
    /\ ra.calls = 3

\* C2: when RetryAgent has returned and no attempt reported success, the
\* failure key holds "failed" and retry_status is a non-empty message that
\* carries N.
C2_ExhaustionReported ==
    (/\ ra.pc = "returned"
     /\ ra.max_retries >= 1
     /\ \A k \in 1..Len(ra.log) : ra.log[k] # "success")
    => /\ Len(ra.log) = ra.max_retries
       /\ Get(state, ra.failure_key) = "failed"
       /\ "retry_status" \in DOMAIN state
       /\ state["retry_status"].text # ""
       /\ state["retry_status"].n = ra.max_retries

C2_Witness ==
    /\ ra.max_retries = 2
    /\ ra.log = <<"failed", "failed">>
    /\ ra.pc = "returned"
    /\ state["retry_status"].n = 2

\* C3: no fault of the target leaves RetryAgent, and when the target raised
\* on attempts 1..N-1 and reported success on attempt N the call has returned
\* the state of attempt N, success value included, without retry_status.
C3_FaultsSwallowed ==
    /\ ra.pc # "raised"
    /\ (/\ ra.max_retries >= 1
        /\ Len(ra.log) = ra.max_retries
        /\ \A k \in 1..(ra.max_retries - 1) : ra.log[k] = "raised"
        /\ ra.log[ra.max_retries] = "success")
       => /\ ra.pc = "returned"
          /\ ra.calls = ra.max_retries
          /\ state = ra.last[1]
          /\ Get(state, ra.failure_key) = ra.success_value
          /\ "retry_status" \in DOMAIN state
                <=> "retry_status" \in DOMAIN ra.input[1]

C3_Witness ==
    /\ ra.max_retries = 3
    /\ ra.log = <<"raised", "raised", "success">>
    /\ ra.pc = "returned"

\* The last invocation of GenerateTestsAgent took its success path: it wrote
\* the test file and the success message.
TestsCompletedSuccessfully ==
    /\ ra.target = "generate_tests"
    /\ Len(ra.last) = 1
    /\ ra.last[1]["test_generation_message"] = Msg("test_generation", "success")

\* C4: in the built graph, once GenerateTestsAgent has completed successfully
\* the wrapping RetryAgent has returned (it invokes the target no further)
\* and the state holds test_generation_status = "success".
C4_TestsSuccessEndsRetry ==
    TestsCompletedSuccessfully =>
        /\ ra.pc = "returned"
        /\ Get(state, "test_generation_status") = "success"

\* C5: repo_check_router returns clone_new_repo for "success" and
\* create_remote_repo for "branch_not_found" and for "failed".
C5_RouterMapping ==
    routed.repo # NotCalled =>
        /\ (Get(state, "repo_check_status") = "success"
              => routed.repo = Returned("clone_new_repo"))
        /\ (Get(state, "repo_check_status") \in {"branch_not_found", "failed"}
              => routed.repo = Returned("create_remote_repo"))

C5_Witness ==
    /\ routed.repo = Returned("create_remote_repo")
    /\ Get(state, "repo_check_status") = "branch_not_found"

\* C6: for every other repo_check_status, the absent key included, the router
\* raises ValueError and names no successor.
C6_UnknownStatusRaises ==
    (/\ routed.repo # NotCalled
     /\ Get(state, "repo_check_status")
           \notin {"success", "branch_not_found", "failed"})
    => /\ routed.repo.raised
       /\ routed.repo.exc = "ValueError"
       /\ routed.repo.value \notin Nodes

C6_Witness ==
    /\ routed.repo.raised
    /\ "repo_check_status" \notin DOMAIN state

\* C7: in a run of the built graph the router never raises: once
\* check_remote_repo has run, repo_check_status is one of the three routed
\* values and the router names a registered node.
C7_RouterTotalOnReachable ==
    /\ node # "ABORTED"
    /\ Len(trace) >= 1 =>
          /\ Get(state, "repo_check_status")
                \in {"success", "branch_not_found", "failed"}
          /\ ~repo_check_router(state).raised
          /\ repo_check_router(state).value \in Nodes
          /\ (Len(trace) = 1 => node = repo_check_router(state).value)

C7_Witness ==
    /\ trace = <<"check_remote_repo">>
    /\ state["repo_check_message"] = Msg("repo_check", "exception")
    /\ node = "create_remote_repo"

\* C8: a target that never writes the failure key makes RetryAgent use up
\* all N attempts and report "failed", whatever the input state.
C8_UnsetKeyIsFailure ==
    (ra.pc = "returned" /\ ra.max_retries >= 1 /\ ~ra.wrote)
    => /\ ra.calls = ra.max_retries
       /\ Get(state, ra.failure_key) = "failed"

\* C9 as stated: with max_retries = 1 the target is invoked once and the
\* state RetryAgent returns is the state the target returned.
C9_PassThrough ==
    (ra.max_retries = 1 /\ ra.pc = "returned" /\ Len(ra.last) = 1)
    => /\ ra.calls = 1
       /\ state = ra.last[1]

\* C9 amended: with max_retries = 1 the target is invoked once; the returned
\* state is the target's when it reported success, and otherwise the
\* target's with the failure key set to "failed" and retry_status added.
C9_SingleAttempt ==
    (ra.max_retries = 1 /\ ra.pc = "returned")
    => /\ ra.calls = 1
       /\ Len(ra.last) = 1 =>
             IF ra.log[1] = "success"
             THEN state = ra.last[1]
             ELSE state = Update(ra.last[1],
                                 (ra.failure_key :> "failed")
                                 @@ ("retry_status" :>
                                       [text |-> "Failed after {} retries",
                                        n |-> 1]))

C9_Witness ==
    /\ ra.max_retries = 1
    /\ ra.pc = "returned"
    /\ ra.log = <<"failed">>
    /\ Get(ra.last[1], ra.failure_key) = "below_threshold"
    /\ "retry_status" \in DOMAIN state

\* C10: every run of the built graph reaches the finish step's return or an
\* abort.
C10_Terminates == <>(node \in {"FINISHED", "ABORTED"})

C10_Witness ==
    /\ node = "FINISHED"
    /\ Len(trace) = 8
    /\ trace[8] = "git_commit_push"

\* ------------------------------------------------ status fields of the steps
Range(seq) == {seq[i] : i \in 1..Len(seq)}

\* The domain prefix under which the agent registered as node n reports.
DomainOf(n) ==
    CASE n = "check_remote_repo"  -> "repo_check"
      [] n = "create_remote_repo" -> "repo_creation"
      [] n = "clone_new_repo"     -> "clone"
      [] n = "generate_code"      -> "code_generation"
      [] n = "generate_tests"     -> "test_generation"
      [] n = "check_coverage"     -> "coverage"
      [] n = "generate_readme"    -> "readme"
      [] n = "git_commit_push"    -> "git_push"

\* The <domain>_status and <domain>_message keys of node n.
StatusKey(n) ==
    CASE n = "check_remote_repo"  -> "repo_check_status"
      [] n = "create_remote_repo" -> "repo_creation_status"
      [] n = "clone_new_repo"     -> "clone_status"
      [] n = "generate_code"      -> "code_generation_status"
      [] n = "generate_tests"     -> "test_generation_status"
      [] n = "check_coverage"     -> "coverage_status"
      [] n = "generate_readme"    -> "readme_status"
      [] n = "git_commit_push"    -> "git_push_status"

MessageKey(n) ==
    CASE n = "check_remote_repo"  -> "repo_check_message"
      [] n = "create_remote_repo" -> "repo_creation_message"
      [] n = "clone_new_repo"     -> "clone_message"
      [] n = "generate_code"      -> "code_generation_message"
      [] n = "generate_tests"     -> "test_generation_message"
      [] n = "check_coverage"     -> "coverage_message"
      [] n = "generate_readme"    -> "readme_message"
      [] n = "git_commit_push"    -> "git_push_message"

\* "success", "failed" and the extra values of the domain of node n.
StatusValues(n) ==
    {"success", "failed"}
    \cup (CASE n = "check_remote_repo" -> {"branch_not_found"}
            [] n = "clone_new_repo"    -> {"already_exists"}
            [] n = "check_coverage"    -> {"below_threshold"}
            [] n = "git_commit_push"   -> {"clean"}
            [] OTHER                   -> {})

\* The agent of node n has been invoked and has returned: a plain node
\* returns within its step; the target of a RetryAgent node has returned
\* once the frame counts a call.
StepInvoked(n) ==
    IF n \in RetryNodes
    THEN \/ node = n /\ ra.pc # "idle" /\ ra.calls >= 1
         \/ n \in Range(trace) /\ node # n
    ELSE n \in Range(trace)

\* C12: after any invocation of a domain's step the state holds that
\* domain's <domain>_status, with "success", "failed" or one of the domain's
\* extra values, and its <domain>_message.
C12_StatusReported ==
    \A n \in Nodes :
        StepInvoked(n) =>
            /\ StatusKey(n) \in DOMAIN state
            /\ state[StatusKey(n)] \in StatusValues(n)
            /\ MessageKey(n) \in DOMAIN state

\* ------------------------------------------------------------- key ownership
\* The status, message and result keys of the domain of node n.
OwnedKeys(n) ==
    {StatusKey(n), MessageKey(n)}
    \cup (CASE n = "generate_code"   -> {"generated_code", "generated_code_path"}
            [] n = "generate_tests"  -> {"tests_content", "test_file_path"}
            [] n = "check_coverage"  -> {"coverage_percent"}
            [] n = "generate_readme" -> {"readme_path", "readme_content"}
            [] OTHER                 -> {})

\* The keys whose presence or value differs between dicts s and t.
ChangedKeys(s, t) ==
    {k \in DOMAIN s \cup DOMAIN t :
        \/ k \notin DOMAIN s
        \/ k \notin DOMAIN t
        \/ s[k] # t[k]}

\* The keys owned by whatever executes in the next step: the target of the
\* RetryAgent during an attempt, the RetryAgent itself after its loop, the
\* agent of a plain node otherwise.
WritableKeys ==
    IF ra.pc = "loop"
    THEN IF RetryLoopGuard(ra)
         THEN OwnedKeys(node)
         ELSE {ra.failure_key, "retry_status"}
    ELSE IF node \in Nodes THEN OwnedKeys(node) ELSE {}

\* C13: every step invocation leaves unchanged all keys other than the
\* status, message and result keys of its own domain; a RetryAgent changes
\* only its failure_key and retry_status.
C13_KeyOwnership ==
    [][ChangedKeys(state, state') \subseteq WritableKeys]_vars

\* ------------------------------------------------------------- input fields
\* The keys of initial_state.
InputFields == DOMAIN FullConfig

\* C14 as stated: every input field of initial_state keeps its value in
\* every step of a run, so it always has the value it had before the entry
\* step ran.
C14_InputsImmutable ==
    [][\A k \in InputFields : k \in DOMAIN state' /\ state'[k] = state[k]]_vars

\* C14 amended: every input field other than repo_url keeps its value in
\* every step; repo_url stays present and changes only in the step of
\* create_remote_repo that reports "success", which stores the html_url of
\* the created repository in it.
C14_InputsImmutableButRepoUrl ==
    [][/\ \A k \in InputFields \ {"repo_url"} :
             k \in DOMAIN state' /\ state'[k] = state[k]
       /\ "repo_url" \in DOMAIN state'
       /\ state'["repo_url"] # state["repo_url"] =>
             /\ node = "create_remote_repo"
             /\ Get(state', "repo_creation_status") = "success"
             /\ state'["repo_url"]
                   \in {r.html_url : r \in {x \in CreateRepoResponses :
                                               x.status_code = 201}}]_vars

\* create_remote_repo has replaced the repo_url of initial_state, and the
\* run has gone on with every other input field as it was.
C14_Witness ==
    /\ node = "generate_code"
    /\ Get(state, "repo_creation_status") = "success"
    /\ state["repo_url"] = "https://github.com/u/new_repo"
    /\ state["repo_url"] # FullConfig["repo_url"]
    /\ \A k \in InputFields \ {"repo_url"} : state[k] = FullConfig[k]

\* -------------------------------------------------------- expected failures
\* What the collaborator of the agent of node n can do in one invocation.
Responses(n) ==
    CASE n = "check_remote_repo"  -> LsRemoteResults
      [] n = "create_remote_repo" -> CreateRepoResponses
      [] n = "clone_new_repo"     -> CloneEnvironments
      [] n = "generate_code"      -> CodeLlmResults
      [] n = "generate_tests"     -> TestsLlmResults
      [] n = "check_coverage"     -> CoverageRuns
      [] n = "generate_readme"    -> ReadmeLlmResults
      [] n = "git_commit_push"    -> GitRuns

\* The state the agent of node n returns for input state s and response r.
RunOf(n, s, r) ==
    CASE n = "check_remote_repo"  -> CheckRemoteRepoExistsAgent_run(s, r)
      [] n = "create_remote_repo" -> CreateRemoteRepoTool_run(s, r)
      [] n = "clone_new_repo"     -> CloneNewRepoAgent_run(s, r).state
      [] n = "generate_code"      -> GeneratePythonCodeAgent_run(s, r)
      [] n = "generate_tests"     -> GenerateTestsAgent_run(s, r)
      [] n = "check_coverage"     -> GenerateCoverageAgent_run(s, r)
      [] n = "generate_readme"    -> GenerateReadmeAgent_run(s, r)
      [] n = "git_commit_push"    -> GitCommitPushAgent_run(s, r)

\* Some key of ks is absent from s or holds an empty value.
Missing(s, ks) == \E k \in ks : ~Truthy(Get(s, k))

\* The expected failures of the agent of node n: a required input is missing
\* from s, or the external call the agent makes fails with response r.
FailureCase(n, s, r) ==
    CASE n = "check_remote_repo" ->
           \/ Missing(s, {"username", "token", "repo_url", "branch"})
           \/ r.exc
           \/ r.returncode # 0
      [] n = "create_remote_repo" ->
           \/ Missing(s, {"username", "token", "new_repo_name"})
           \/ r.exc
           \/ r.status_code # 201
      [] n = "clone_new_repo" ->
           \/ Missing(s, {"username", "token", "repo_url", "repo_path"})
           \/ /\ ~r.git_dir_exists
              /\ StartsWithHttps(Get(s, "repo_url"))
              /\ r.clone # "ok"
      [] n = "generate_code" ->
           Missing(s, {"code_prompt"}) \/ r = "exception"
      [] n = "generate_tests" ->
           Missing(s, {"generated_code"}) \/ r = "exception"
      [] n = "check_coverage" ->
           Missing(s, {"repo_path"}) \/ r.exc
      [] n = "generate_readme" ->
           r = "exception"
      [] n = "git_commit_push" ->
           \/ Missing(s, {"repo_path", "username", "token", "repo_url"})
           \/ r.setup = "fail"
           \/ r.empty /\ r.init = "fail"
           \/ ~r.empty /\ r.add = "fail"
           \/ /\ r.push = "fail"
              /\ "push" \in Range(GitCommitPushAgent_call(s, r).commands)

C16_ExhaustionNotRaised ==
    /\ ra.pc \in {"loop", "returned"}
    /\ (/\ ra.max_retries >= 1
        /\ Len(ra.log) = ra.max_retries
        /\ \A k \in 1..Len(ra.log) : ra.log[k] = "raised")
       => \/ /\ ra.pc = "loop"
             /\ ~RetryLoopGuard(ra)
             /\ ra.calls = ra.max_retries
          \/ /\ ra.pc = "returned"
             /\ ra.calls = ra.max_retries
             /\ Get(state, ra.failure_key) = "failed"
             /\ "retry_status" \in DOMAIN state

C16_Witness ==
    /\ ra.max_retries = 3
    /\ ra.log = <<"raised", "raised", "raised">>
    /\ ra.pc = "returned"
    /\ Get(state, ra.failure_key) = "failed"
    /\ "retry_status" \in DOMAIN state

RoutedSuccessors(n) ==
    {RouterOf(n, [k \in {StatusKey(n)} |-> v]).value :
        v \in {w \in RouterStatusValues \ {None} :
                  ~RouterOf(n, [k \in {StatusKey(n)} |-> w]).raised}}

\* The number of outgoing edge types build_graph gives node n: a conditional
\* edge, a static edge, the edge to END of the finish point.
EdgeTypes(n) ==
    (IF n \in ConditionalEdges THEN 1 ELSE 0)
    + (IF n \in DOMAIN StaticEdges THEN 1 ELSE 0)
    + (IF n = FinishPoint THEN 1 ELSE 0)

\* C18: every registered step has exactly one outgoing edge type, edges
\* leave registered steps only, every static and every routed successor is a
\* registered node, and so are the entry and the finish point; in a run
\* every step that returns therefore has a successor: the run is at a
\* registered node or over, never stopped for want of an edge.
C18_EdgesWellFormed ==
    /\ \A n \in Nodes : EdgeTypes(n) = 1
    /\ ConditionalEdges \subseteq Nodes
    /\ DOMAIN StaticEdges \subseteq Nodes
    /\ \A n \in DOMAIN StaticEdges : StaticEdges[n] \in Nodes
    /\ \A n \in ConditionalEdges :
          RoutedSuccessors(n) # {} /\ RoutedSuccessors(n) \subseteq Nodes
    /\ EntryPoint \in Nodes
    /\ FinishPoint \in Nodes
    /\ node \in Nodes \cup {"NOT_STARTED", "FINISHED"}
    /\ \A i \in 1..Len(trace) : trace[i] \in Nodes

\* A run took the conditional edge, every static edge and the finish edge.
C18_Witness ==
    /\ node = "FINISHED"
    /\ Range(trace) = Nodes
    /\ trace[1] = EntryPoint
    /\ trace[2] = "create_remote_repo"
    /\ trace[Len(trace)] = FinishPoint

\* ------------------------------------------------------ sequential execution
\* The nodes an edge of the graph leads to from node n.
EdgeSuccessors(n) ==
    IF n \in ConditionalEdges THEN RoutedSuccessors(n)
    ELSE IF n \in DOMAIN StaticEdges THEN {StaticEdges[n]}
    ELSE {}

\* C19: steps execute one at a time and in path order.  A step starts only
\* when no other step is executing, it is the step the engine stands at, it
\* has not run before and it follows the step started last along an edge.
\* The engine moves on only when the step it stands at has returned.  The
\* state changes only while a step is executing (a plain step within its
\* invocation, the target or the update of the RetryAgent step started
\* last), so each step is invoked with the state its predecessor returned.
C19_StrictlySequential ==
    [][/\ trace' # trace =>
             /\ ra.pc = "idle"
             /\ node \in Nodes
             /\ trace' = Append(trace, node)
             /\ node \notin Range(trace)
             /\ IF trace = <<>> THEN node = EntryPoint
                ELSE node \in EdgeSuccessors(trace[Len(trace)])
       /\ node' # node =>
             /\ ra.pc \in {"idle", "returned"}
             /\ ra'.pc = "idle"
             /\ node = "NOT_STARTED" \/ trace'[Len(trace')] = node
       /\ state' # state =>
             \/ /\ ra.pc = "idle"
                /\ node \in Nodes \ RetryNodes
                /\ trace' = Append(trace, node)
             \/ /\ ra.pc = "loop"
                /\ node \in RetryNodes
                /\ trace' = trace
                /\ trace[Len(trace)] = node]_vars

\* generate_readme is about to start on the state check_coverage returned,
\* after two RetryAgent steps ran to their end.
C19_Witness ==
    /\ node = "generate_readme"
    /\ ra = IdleFrame
    /\ trace = <<"check_remote_repo", "create_remote_repo", "clone_new_repo",
                 "generate_code", "generate_tests", "check_coverage">>
    /\ "retry_status" \in DOMAIN state
    /\ "coverage_status" \in DOMAIN state
    /\ "readme_status" \notin DOMAIN state

\* ------------------------------------------------------------ clone_new_repo
CloneStatusValues == {"success", "failed", "already_exists"}

\* username, token, repo_url and repo_path (with its default) are non-empty.
CloneParametersPresent(s) ==
    /\ Truthy(Get(s, "username"))
    /\ Truthy(Get(s, "token"))
    /\ Truthy(Get(s, "repo_url"))
    /\ Truthy(GetD(s, "repo_path", "./cloned_repo"))

\* C20: whenever clone_new_repo is about to run, in every environment in
\* which repo_path holds a .git directory and the required parameters are
\* present the agent does not call Repo.clone_from and returns clone_status
\* "already_exists", whatever the repo_url; in every environment the
\* clone_status it returns is "success", "failed" or "already_exists", and
\* so is the clone_status of the state once the step has run.
C20_CloneSkipsExisting ==
    /\ (node = "clone_new_repo" /\ ra.pc = "idle") =>
          \A e \in CloneEnvironments :
              /\ (e.git_dir_exists /\ CloneParametersPresent(state)) =>
                    /\ ~CloneNewRepoAgent_run(state, e).clone_from
                    /\ Get(CloneNewRepoAgent_run(state, e).state, "clone_status")
                          = "already_exists"
              /\ Get(CloneNewRepoAgent_run(state, e).state, "clone_status")
                    \in CloneStatusValues
    /\ "clone_new_repo" \in Range(trace) =>
          Get(state, "clone_status") \in CloneStatusValues

\* The step has run on a repo_url that is no https URL and found the
\* repository in place.
C20_Witness ==
    /\ node = "generate_code"
    /\ "clone_new_repo" \in Range(trace)
    /\ Get(state, "clone_status") = "already_exists"
    /\ state["clone_message"] = Msg("clone", "already_exists")
    /\ ~StartsWithHttps(state["repo_url"])

\* C21: a RetryAgent call that has returned after k >= 1 target invocations
\* has waited retry_delay exactly k-1 times: once between consecutive
\* attempts, and not after the last one, be it a success or the N-th
\* failure.
C21_WaitsBetweenAttempts ==
    (ra.pc = "returned" /\ ra.calls >= 1) => ra.sleeps = ra.calls - 1

\* ------------------------------------------------------- the two sequences
PathClone ==
    <<"check_remote_repo", "clone_new_repo", "generate_code", "generate_tests",
      "check_coverage", "generate_readme", "git_commit_push">>

PathCreate ==
    <<"check_remote_repo", "create_remote_repo", "clone_new_repo",
      "generate_code", "generate_tests", "check_coverage", "generate_readme",
      "git_commit_push">>

IsPrefix(p, q) == Len(p) <= Len(q) /\ \A i \in 1..Len(p) : p[i] = q[i]

\* The sequence the repo_check_status of the state selects.
ExpectedPath ==
    IF Get(state, "repo_check_status") \in {"branch_not_found", "failed"}
    THEN PathCreate
    ELSE PathClone

\* The steps run so far are the beginning of the selected sequence, and a
\* finished run has executed all of it.
OnExpectedPath ==
    /\ node # "ABORTED"
    /\ trace # <<>> =>
          /\ Get(state, "repo_check_status")
                \in {"success", "branch_not_found", "failed"}
          /\ IsPrefix(trace, ExpectedPath)
          /\ node \in Nodes => ExpectedPath[Len(trace) + 1] = node
                               \/ (ra.pc # "idle" /\ trace[Len(trace)] = node)
    /\ node = "FINISHED" => trace = ExpectedPath

\* C22: every run of the built graph executes exactly one of the two step
\* sequences, to its end: the one with create_remote_repo iff
\* repo_check_status is "branch_not_found" or "failed"; whatever status a
\* later step reports, no downstream step is skipped, repeated or reordered.
C22_TwoSequences ==
    []OnExpectedPath /\ <>(node = "FINISHED" /\ trace = ExpectedPath)

\* A run with create_remote_repo came to its end although clone_new_repo,
\* generate_code and check_coverage reported "failed".
C22_Witness ==
    /\ node = "FINISHED"
    /\ trace = PathCreate
    /\ Get(state, "repo_check_status") = "branch_not_found"
    /\ Get(state, "clone_status") = "failed"
    /\ Get(state, "code_generation_status") = "failed"
    /\ Get(state, "coverage_status") = "failed"

\* --------------------------------------------------- after the coverage check
\* How often node n has been entered.
Entered(tr, n) == Cardinality({i \in 1..Len(tr) : tr[i] = n})

\* C23: whatever check_coverage is about to return (success, below_threshold
\* or failed), its successor is generate_readme; once check_coverage has
\* run, the run is at generate_readme or behind it, and generate_tests has
\* been entered exactly once; it is never entered twice.
C23_CoverageNeverLoops ==
    /\ Entered(trace, "generate_tests") <= 1
    /\ (node = "check_coverage" /\ ra.pc = "idle") =>
          \A r \in CoverageRuns :
              Successor("check_coverage", GenerateCoverageAgent_run(state, r))
                 = "generate_readme"
    /\ "check_coverage" \in Range(trace) =>
          /\ Get(state, "coverage_status")
                \in {"success", "below_threshold", "failed"}
          /\ node \in {"generate_readme", "git_commit_push", "FINISHED"}
          /\ Entered(trace, "generate_tests") = 1

C23_Witness ==
    /\ node = "FINISHED"
    /\ Get(state, "coverage_status") = "below_threshold"
    /\ Entered(trace, "generate_tests") = 1
    /\ Entered(trace, "check_coverage") = 1

\* C24: coverage_check_router returns generate_tests for coverage_status
\* "below_threshold" and "failed" and generate_readme for "success"; for
\* every other value, the absent key included, it raises ValueError and
\* names no node.  It does not raise on any state GenerateCoverageAgent
\* returns, with or without a repo_path, whatever pip and pytest do.
C24_CoverageRouter ==
    /\ routed.cov # NotCalled =>
          /\ Get(state, "coverage_status") \in {"below_threshold", "failed"}
                => routed.cov = Returned("generate_tests")
          /\ Get(state, "coverage_status") = "success"
                => routed.cov = Returned("generate_readme")
          /\ Get(state, "coverage_status")
                \notin {"below_threshold", "failed", "success"}
                => /\ routed.cov.raised
                   /\ routed.cov.exc = "ValueError"
                   /\ routed.cov.value \notin Nodes
    /\ \A r \in CoverageRuns :
          \A s \in {state, Update(state, "repo_path" :> "./repo")} :
              /\ ~coverage_check_router(GenerateCoverageAgent_run(s, r)).raised
              /\ coverage_check_router(GenerateCoverageAgent_run(s, r)).value
                    \in {"generate_tests", "generate_readme"}

C24_Witness ==
    /\ routed.cov = Returned("generate_tests")
    /\ Get(state, "coverage_status") = "failed"

\* ---------------------------------------------- the state inside RetryAgent
\* The dict the local `state` of _run is bound to: what the target returned
\* last, or the input of the call while no attempt has returned.
BoundState == IF ra.last # <<>> THEN ra.last[1] ELSE ra.input[1]

LastAttemptRaised == ra.log # <<>> /\ ra.log[Len(ra.log)] = "raised"

Exhausted ==
    /\ ra.pc = "returned"
    /\ \A k \in 1..Len(ra.log) : ra.log[k] # "success"

\* C25: inside the loop the next attempt is invoked with the state the last
\* attempt returned (the input of the call before the first attempt); after
\* an attempt that raised it is invoked with the dict that attempt was
\* given, in which at most what the raising target itself wrote (the failure
\* key) differs.  The state returned on exhaustion is the state returned
\* last, or the input if every attempt raised, with only the failure key
\* and retry_status overwritten.
C25_StateThreading ==
    /\ ra.pc = "loop" =>
          IF LastAttemptRaised
          THEN ChangedKeys(state, BoundState) \subseteq {ra.failure_key}
          ELSE state = BoundState
    /\ Exhausted =>
          /\ ChangedKeys(state, BoundState)
                \subseteq {ra.failure_key, "retry_status"}
          /\ Get(state, ra.failure_key) = "failed"
          /\ "retry_status" \in DOMAIN state

\* The second attempt returned, the third raised; the call returned the
\* state of the second attempt with the two keys overwritten.
C25_Witness ==
    /\ ra.max_retries = 3
    /\ ra.log = <<"raised", "failed", "raised">>
    /\ Exhausted
    /\ Get(ra.last[1], ra.failure_key) = "below_threshold"
    /\ state["payload"] = "out"
    /\ ra.input[1]["payload"] = "in"

\* The call returned from inside the loop: its last attempt reported success.
ReturnedOnSuccess ==
    /\ ra.pc = "returned"
    /\ ra.log # <<>>
    /\ ra.log[Len(ra.log)] = "success"

C28_GeneratedCodeValidated ==
    (node = "generate_tests" /\ Truthy(Get(state, "generated_code"))) =>
        /\ Get(state, "code_generation_status") = "success"
        /\ Get(state, "generated_code") = "valid_code"

\* username, token, repo_url and branch are present and repo_url is an https
\* URL.
RepoCheckParametersValid(s) ==
    /\ ~Missing(s, {"username", "token", "repo_url", "branch"})
    /\ StartsWithHttps(Get(s, "repo_url"))

RepoCheckStatusValues == {"success", "branch_not_found", "failed"}

\* C30: whenever check_remote_repo is about to run, for everything git
\* ls-remote can do the agent returns repo_check_status "success" iff the
\* parameters are valid and git exits 0 with non-empty output,
\* "branch_not_found" iff they are valid and git exits 0 with empty output,
\* and "failed" in every other case; it reaches the git command iff the
\* parameters are present and repo_url is an https URL; once the step has
\* run repo_check_status is one of the three values.
C30_RepoCheckClassification ==
    /\ node = "check_remote_repo" =>
          \A r \in LsRemoteResults :
              LET c == CheckRemoteRepoExistsAgent_call(state, r)
                  st == Get(c.state, "repo_check_status")
                  exit0 == RepoCheckParametersValid(state) /\ ~r.exc
                           /\ r.returncode = 0
              IN /\ st \in RepoCheckStatusValues
                 /\ st = "success" <=> (exit0 /\ r.stdout # "")
                 /\ st = "branch_not_found" <=> (exit0 /\ r.stdout = "")
                 /\ c.ls_remote <=> RepoCheckParametersValid(state)
    /\ "check_remote_repo" \in Range(trace) =>
          Get(state, "repo_check_status") \in RepoCheckStatusValues

\* The step has run with valid parameters, git ls-remote exited 0 without
\* output, and the run went on to create_remote_repo.
C30_Witness ==
    /\ trace = <<"check_remote_repo">>
    /\ node = "create_remote_repo"
    /\ RepoCheckParametersValid(state)
    /\ state["repo_check_status"] = "branch_not_found"
    /\ state["repo_check_message"] = Msg("repo_check", "branch not found")

\* C27: the step by which a RetryAgent call leaves its loop exhausted sets
\* the failure key to "failed" whatever the state held under it (a value
\* other than the success value, the success value written by a target that
\* then raised, or nothing), sets retry_status, and neither adds, removes
\* nor changes any other key.
C27_ExhaustionOverwrites ==
    [][(ra.pc = "loop" /\ ~RetryLoopGuard(ra) /\ ra'.pc = "returned") =>
          /\ Get(state', ra.failure_key) = "failed"
          /\ "retry_status" \in DOMAIN state'
          /\ DOMAIN state' = DOMAIN state \cup {ra.failure_key, "retry_status"}
          /\ \A k \in DOMAIN state \ {ra.failure_key, "retry_status"} :
                state'[k] = state[k]]_vars

\* A call has exhausted three attempts, the last of which returned the
\* failure key holding "below_threshold"; the returned state holds "failed"
\* and the payload of the last attempt.
C27_Witness ==
    /\ Exhausted
    /\ ra.calls = 3
    /\ ra.log[3] = "failed"
    /\ Get(ra.last[1], ra.failure_key) = "below_threshold"
    /\ state[ra.failure_key] = "failed"
    /\ state["payload"] = ra.last[1]["payload"]

\* The attempts of the outer and of the inner RetryAgent.
OuterRetries == ra.max_retries
InnerRetries == ra.wraps[1].max_retries

\* The innermost target has reported success.
TargetSucceeded ==
    /\ ra.target_log # <<>>
    /\ ra.target_log[Len(ra.target_log)] = "success"

\* C29: a RetryAgent with max_retries N around a RetryAgent with max_retries
\* M invokes the innermost target at most N*M times; no invocation follows
\* one that reported success, after which the outer call has returned, with
\* the state that attempt returned and the success value under the failure
\* key; an outer call that returns without a success returns "failed" under
\* the failure key.
C29_NestedRetry ==
    /\ Len(ra.target_log) <= OuterRetries * InnerRetries
    /\ \A i \in 1..(Len(ra.target_log) - 1) : ra.target_log[i] # "success"
    /\ TargetSucceeded =>
          /\ ra.pc = "returned"
          /\ state = ra.last[1]
          /\ Get(state, ra.failure_key) = ra.success_value
    /\ (ra.pc = "returned" /\ ~TargetSucceeded) =>
          Get(state, ra.failure_key) = "failed"

\* Two by two: the inner RetryAgent exhausted its two attempts once, and on
\* the outer retry its second attempt succeeded.
C29_Witness ==
    /\ OuterRetries = 2
    /\ InnerRetries = 2
    /\ ra.target_log = <<"failed", "raised", "failed", "success">>
    /\ ra.log = <<"failed", "success">>
    /\ ra.pc = "returned"
    /\ state = ra.last[1]

\* The coverage threshold the workflow's input state supplies (main.py puts
\* config.settings.tdd_coverage under the key tdd_coverage).
SuppliedCoverageThreshold(s) == s["tdd_coverage"]

\* C31: whenever check_coverage is about to run, for everything pip and
\* pytest can do the agent returns coverage_status "success" exactly when a
\* percentage was parsed and is >= the threshold supplied in the input
\* state, "below_threshold" exactly when it was parsed and is lower, and
\* "failed" when repo_path is missing, nothing was parsed or an exception
\* occurred; coverage_percent is written only when a percentage was parsed.
C31_CoverageThreshold ==
    node = "check_coverage" =>
        \A r \in CoverageRuns :
            LET t == GenerateCoverageAgent_run(state, r)
                st == Get(t, "coverage_status")
                parsed == Truthy(Get(state, "repo_path")) /\ ~r.exc /\ r.parsed
            IN /\ st = "success"
                     <=> (parsed /\ r.percent >= SuppliedCoverageThreshold(state))
               /\ st = "below_threshold"
                     <=> (parsed /\ r.percent < SuppliedCoverageThreshold(state))
               /\ st = "failed" <=> ~parsed
               /\ "coverage_percent" \in DOMAIN t <=> parsed

\* repo_url = state.get("repo_url"): the URL CloneNewRepoAgent clones from.
CloneNewRepoAgent_repo_url(s) == Get(s, "repo_url")

\* The html_url of the repositories the GitHub API reports as created.
CreatedRepoUrls ==
    {r.html_url : r \in {q \in CreateRepoResponses :
                           ~q.exc /\ q.status_code = 201}}

\* C32: the step create_remote_repo hands over to clone_new_repo; when it
\* reports success the state it hands over holds the URL of the created
\* repository under repo_url, and otherwise repo_url is what it was before
\* the step; clone_new_repo, which runs next in both cases, reads that
\* repo_url, and no step between the two changes it.
C32_CloneUsesCreatedRepo ==
    [][/\ (node = "create_remote_repo" /\ node' # node) =>
             /\ node' = "clone_new_repo"
             /\ IF Get(state', "repo_creation_status") = "success"
                THEN CloneNewRepoAgent_repo_url(state') \in CreatedRepoUrls
                ELSE CloneNewRepoAgent_repo_url(state')
                        = CloneNewRepoAgent_repo_url(state)
       /\ (node = "clone_new_repo" /\ node' # node) =>
             /\ "clone_status" \in DOMAIN state'
             /\ CloneNewRepoAgent_repo_url(state')
                   = CloneNewRepoAgent_repo_url(state)
             /\ ("create_remote_repo" \in Range(trace)
                 /\ Get(state, "repo_creation_status") = "success") =>
                   CloneNewRepoAgent_repo_url(state) \in CreatedRepoUrls]_vars

\* The repository was created and then cloned from its new URL.
C32_Witness ==
    /\ trace = <<"check_remote_repo", "create_remote_repo", "clone_new_repo">>
    /\ state["repo_creation_status"] = "success"
    /\ state["clone_status"] = "success"
    /\ state["repo_url"] \in CreatedRepoUrls
    /\ node = "generate_code"

\* Every b in the sequence cmds comes after an a.
Preceded(cmds, a, b) ==
    \A j \in 1..Len(cmds) : cmds[j] = b => \E i \in 1..(j - 1) : cmds[i] = a

\* What git commit printed, on either stream, reports nothing to commit.
CommitReportsNothing(res) ==
    ContainsNothingToCommit(res.stdout) \/ ContainsNothingToCommit(res.stderr)

GitPushStatusValues == {"success", "failed", "clean"}

\* C33: whenever git_commit_push is about to run, for everything the git
\* commands can do: a push comes after a commit and a commit after an add;
\* on a repository with commits whose commit reports "nothing to commit" the
\* agent returns git_push_status "clean" and does not push; git_push_status
\* is "success" only if the push was run and succeeded, and is one of
\* "success", "failed", "clean".
C33_CommitBeforePush ==
    node = "git_commit_push" =>
        \A r \in GitRuns :
            LET c == GitCommitPushAgent_call(state, r)
                st == Get(c.state, "git_push_status")
                pushed == "push" \in Range(c.commands)
            IN /\ Preceded(c.commands, "commit", "push")
               /\ Preceded(c.commands, "add", "commit")
               /\ (~r.empty /\ "commit" \in Range(c.commands)
                   /\ CommitReportsNothing(r.commit)) =>
                      (st = "clean" /\ ~pushed)
               /\ st = "clean" => ~pushed
               /\ st = "success" => (pushed /\ r.push = "ok")
               /\ st \in GitPushStatusValues

\* C34: a RetryAgent constructed with max_retries <= 0 never invokes its
\* target and never waits; when it has returned, the state is the input
\* state with "failed" under the failure key and retry_status set to the
\* message about max_retries, every other key as it was.
C34_NoAttempts ==
    ra.max_retries <= 0 =>
        /\ ra.calls = 0
        /\ ra.sleeps = 0
        /\ ra.log = <<>>
        /\ ra.pc \in {"loop", "returned"}
        /\ ra.pc = "loop" => state = ra.input[1]
        /\ ra.pc = "returned" =>
              /\ DOMAIN state
                    = DOMAIN ra.input[1] \cup {ra.failure_key, "retry_status"}
              /\ Get(state, ra.failure_key) = "failed"
              /\ state["retry_status"]
                    = [text |-> "Failed after {} retries", n |-> ra.max_retries]
              /\ \A k \in DOMAIN ra.input[1] \ {ra.failure_key, "retry_status"} :
                    state[k] = ra.input[1][k]

\* A RetryAgent with max_retries -1 has returned on an input that held the
\* success value: the state holds "failed".
C34_Witness ==
    /\ ra.max_retries = -1
    /\ ra.pc = "returned"
    /\ Get(ra.input[1], ra.failure_key) = ra.success_value
    /\ state[ra.failure_key] = "failed"
    /\ state["retry_status"].n = -1
    /\ ra.calls = 0

====
